---------------------------- MODULE Spec2Model ----------------------------
(***************************************************************************)
(* Model of "Assignment 2/American penalty.cpp": the Thomas tridiagonal    *)
(* solver, the local Lagrange interpolator and the Crank-Nicolson penalty  *)
(* time march.                                                             *)
(*                                                                         *)
(* A C++ double is modelled by an exact rational <<num, den>> in lowest    *)
(* terms with den > 0; <<0, 0>> stands for a non-finite value (the result  *)
(* of a division by zero), which every operation propagates and which      *)
(* compares false with everything, as a NaN does.  Rounding error is not   *)
(* modelled.  Vectors are functions on 0..n-1, as std::vector is indexed.  *)
(***************************************************************************)
EXTENDS Integers, Sequences, FiniteSets, TLC

(***************************************************************************)
(* double arithmetic                                                       *)
(***************************************************************************)
Abs(k) == IF k < 0 THEN -k ELSE k

RECURSIVE Gcd(_, _)
Gcd(m, k) == IF k = 0 THEN m ELSE Gcd(k, m % k)

NaN == <<0, 0>>

IsNaN(p) == p[2] = 0

\* The operations bind each operand to its value (a \in {p}) before using
\* it, so that an operand that is itself a long expression is evaluated once.

\* the double nearest to num/den: lowest terms, positive denominator
Norm(num, den) ==
    CHOOSE v \in {IF m = 0 THEN NaN
                  ELSE LET s == IF m < 0 THEN -1 ELSE 1
                       IN  CHOOSE w \in {<<s * (k \div g), s * (m \div g)>> :
                                         g \in {Gcd(Abs(k), Abs(m))}} : TRUE :
                  k \in {num}, m \in {den}} : TRUE

\* an int converted to double
R(k) == <<k, 1>>

Zero == R(0)

One == R(1)

RAdd(p, q) ==
    CHOOSE v \in {IF IsNaN(a) \/ IsNaN(b) THEN NaN
                  ELSE CHOOSE w \in {Norm(a[1] * (b[2] \div g) + b[1] * (a[2] \div g),
                                          (a[2] \div g) * b[2]) :
                                     g \in {Gcd(a[2], b[2])}} : TRUE :
                  a \in {p}, b \in {q}} : TRUE

RNeg(p) == CHOOSE v \in {IF IsNaN(a) THEN NaN ELSE <<-a[1], a[2]>> : a \in {p}} : TRUE

RSub(p, q) == RAdd(p, RNeg(q))

RMul(p, q) ==
    CHOOSE v \in {IF IsNaN(a) \/ IsNaN(b) THEN NaN
                  ELSE IF a[1] = 0 \/ b[1] = 0 THEN Zero
                  ELSE CHOOSE w \in {<<(a[1] \div g1) * (b[1] \div g2),
                                       (a[2] \div g2) * (b[2] \div g1)>> :
                                     g1 \in {Gcd(Abs(a[1]), b[2])},
                                     g2 \in {Gcd(Abs(b[1]), a[2])}} : TRUE :
                  a \in {p}, b \in {q}} : TRUE

RDiv(p, q) ==
    CHOOSE v \in {IF IsNaN(a) \/ IsNaN(b) \/ b[1] = 0 THEN NaN
                  ELSE RMul(a, IF b[1] < 0 THEN <<-b[2], -b[1]>>
                               ELSE <<b[2], b[1]>>) :
                  a \in {p}, b \in {q}} : TRUE

\* num1/den1 < num2/den2 for positive denominators, compared by whole parts
\* and then by the reciprocals of the remainders, so that no product is formed
RECURSIVE FracLt(_, _, _, _)
FracLt(n1, d1, n2, d2) ==
    LET f1 == n1 \div d1
        f2 == n2 \div d2
        r1 == n1 % d1
        r2 == n2 % d2
    IN  IF f1 # f2 THEN f1 < f2
        ELSE IF r2 = 0 THEN FALSE
        ELSE IF r1 = 0 THEN TRUE
        ELSE FracLt(d2, r2, d1, r1)

\* p < q on doubles
RLt(p, q) ==
    \E a \in {p}, b \in {q} :
        ~IsNaN(a) /\ ~IsNaN(b) /\ FracLt(a[1], a[2], b[1], b[2])

RLe(p, q) ==
    \E a \in {p}, b \in {q} :
        ~IsNaN(a) /\ ~IsNaN(b) /\ ~FracLt(b[1], b[2], a[1], a[2])

\* std::max(p, q): (p < q) ? q : p
RMax(p, q) ==
    CHOOSE v \in {IF RLt(a, b) THEN b ELSE a : a \in {p}, b \in {q}} : TRUE

RAbs(p) ==
    CHOOSE v \in {IF IsNaN(a) THEN NaN ELSE <<Abs(a[1]), a[2]>> : a \in {p}} : TRUE

\* pow(p, 2)
RSq(p) == CHOOSE v \in {RMul(a, a) : a \in {p}} : TRUE

\* floor of a finite double, as an integer
Floor(p) == p[1] \div p[2]

\* conversion double -> int: truncation toward zero
Trunc(p) ==
    CHOOSE k \in {IF a[1] >= 0 THEN a[1] \div a[2] ELSE -((-a[1]) \div a[2]) :
                  a \in {p}} : TRUE

\* round to nearest, halves away from zero
Round(p) ==
    IF p[1] >= 0 THEN (2 * p[1] + p[2]) \div (2 * p[2])
    ELSE -((2 * (-p[1]) + p[2]) \div (2 * p[2]))

Size(v) == Cardinality(DOMAIN v)

(***************************************************************************)
(* thomas_solve                                                            *)
(***************************************************************************)
\* rows 0..j of a forward sweep that divides by the caller's diagonal
\* b_[j - 1] instead of the swept pivot b[j - 1]
RECURSIVE StalePivotRows(_, _, _, _, _)
StalePivotRows(a, b_, c, d, j) ==
    IF j = 0 THEN (0 :> [b |-> b_[0], d |-> d[0]])
    ELSE CHOOSE rows \in
             {done @@ (j :> [b |-> RSub(b_[j], RDiv(RMul(c[j - 1], a[j]), b_[j - 1])),
                             d |-> RSub(d[j], RDiv(RMul(done[j - 1].d, a[j]),
                                                   b_[j - 1]))]) :
              done \in {StalePivotRows(a, b_, c, d, j - 1)}} : TRUE

ThomasForwardStalePivot(a, b_, c, d) == StalePivotRows(a, b_, c, d, Size(a) - 1)

\* rows 0..j of the forward sweep: for (int j{ 1 }; j < n; j++)
RECURSIVE ForwardRows(_, _, _, _, _)
ForwardRows(a, b_, c, d, j) ==
    IF j = 0 THEN (0 :> [b |-> b_[0], d |-> d[0]])
    ELSE CHOOSE rows \in
             {done @@ (j :> [b |-> RSub(b_[j], RDiv(RMul(c[j - 1], a[j]),
                                                    done[j - 1].b)),
                             d |-> RSub(d[j], RDiv(RMul(done[j - 1].d, a[j]),
                                                   done[j - 1].b))]) :
              done \in {ForwardRows(a, b_, c, d, j - 1)}} : TRUE

\* the forward sweep: the local pivots b[j] and the caller's d[j] as it
\* leaves them
ThomasForward(a, b_, c, d) == ForwardRows(a, b_, c, d, Size(a) - 1)

\* entries j..n-1 of the back substitution: for (int j = n - 2; j >= 0; j--)
RECURSIVE BackRows(_, _, _, _)
BackRows(b, c, d, j) ==
    IF j = Size(b) - 1 THEN (j :> RDiv(d[j], b[j]))
    ELSE CHOOSE rows \in
             {(j :> RDiv(RSub(d[j], RMul(c[j], done[j + 1])), b[j])) @@ done :
              done \in {BackRows(b, c, d, j + 1)}} : TRUE

\* the back substitution over the swept pivots b and right-hand side d
ThomasBack(b, c, d) == BackRows(b, c, d, 0)

\* thomas_solve(a, b_, c, d): the returned vector, and d as the call leaves
\* it (d is taken by non-const reference and swept in place)
ThomasSolve(a, b_, c, d) ==
    CHOOSE res \in
        {CHOOSE r \in {[temp |-> ThomasBack(b, c, dd), d |-> dd] :
                       b  \in {[j \in DOMAIN fw |-> fw[j].b]},
                       dd \in {[j \in DOMAIN fw |-> fw[j].d]}} : TRUE :
         fw \in {ThomasForward(a, b_, c, d)}} : TRUE

(***************************************************************************)
(* lagrange_interpolation                                                  *)
(***************************************************************************)
Max(m, k) == IF m < k THEN k ELSE m

Min(m, k) == IF k < m THEN k ELSE m

Half == <<1, 2>>

\* a re-invocation that lowers the order by one instead of clamping it
ReinvokeOrderByOne(x, n) == n - 1

\* the order the re-invocation is made with when x.size() < n
ReinvokeOrder(x, n) == Size(x)

\* a window of even order centred one sample too low
JStarRawOffCentre(q, n) ==
    LET nHalf == n \div 2
    IN  IF n % 2 = 0 THEN Trunc(q) - nHalf
        ELSE Trunc(RAdd(q, Half)) - nHalf

\* jStar before clamping; q is (x0 - x[0]) / dx, a finite double
JStarRaw(q, n) ==
    LET nHalf == n \div 2
    IN  IF n % 2 = 0 THEN Trunc(q) - (nHalf - 1)
        ELSE Trunc(RAdd(q, Half)) - nHalf

\* jStar = std::max(0, jStar); jStar = std::min(int(x.size() - n), jStar)
ClampJStar(jStar, size, n) == Min(size - n, Max(0, jStar))

\* the indices i (and j) the two loops of the Lagrange sum run over
SumIndices(jStar, n) == {jStar + k : k \in 0..(n - 1)}

\* the inner loop: int_temp = y[i] * prod_{j # i} (x0 - x[j]) / (x[i] - x[j])
LagrangeTerm(y, x, x0, jStar, n, i) ==
    LET p[k \in 0..n] ==
            IF k = 0 THEN y[i]
            ELSE LET j == jStar + k - 1
                 IN  IF j = i THEN p[k - 1]
                     ELSE RMul(p[k - 1], RDiv(RSub(x0, x[j]), RSub(x[i], x[j])))
    IN  p[n]

\* the outer loop: temp += int_temp
LagrangeSum(y, x, x0, jStar, n) ==
    LET t[k \in 0..n] ==
            IF k = 0 THEN Zero
            ELSE RAdd(t[k - 1], LagrangeTerm(y, x, x0, jStar, n, jStar + k - 1))
    IN  t[n]

\* lagrange_interpolation(y, x, x0, n) on a grid of at least two samples
\* with x[1] # x[0], where every step of it is defined
LagrangeInterpolation(y, x, x0, n) ==
    LET m     == IF Size(x) < n THEN ReinvokeOrder(x, n) ELSE n
        dx    == RSub(x[1], x[0])
        jStar == ClampJStar(JStarRaw(RDiv(RSub(x0, x[0]), dx), m), Size(x), m)
    IN  IF m = 1 THEN y[jStar] ELSE LagrangeSum(y, x, x0, jStar, m)

(***************************************************************************)
(* crank_nicolson                                                          *)
(***************************************************************************)
\* exp(p): exact at 0; elsewhere the rational (2 + p) / (2 - p), which
\* stands for the rounded value the library returns
Exp(p) ==
    CHOOSE v \in {IF a = Zero THEN One ELSE RDiv(RAdd(R(2), a), RSub(R(2), a)) :
                  a \in {p}} : TRUE

\* pow(p, e) for an exponent e that is a whole number
RECURSIVE IntPow(_, _)
IntPow(p, k) ==
    IF k = 0 THEN One
    ELSE IF k < 0 THEN RDiv(One, IntPow(p, -k))
    ELSE RMul(p, IntPow(p, k - 1))

Pow(p, e) == IF e[2] = 1 THEN IntPow(p, e[1]) ELSE NaN

\* double dS = S_max / j_max
DS(P) == RDiv(P.S_max, R(P.j_max))

\* double dt = T / i_max
DT(P) == RDiv(P.T, R(P.i_max))

\* S[j] = j * dS
Grid(P) == [j \in 0..P.j_max |-> RMul(R(j), DS(P))]

\* std::max(F, R * S[j])
Payoff(P) == [j \in 0..P.j_max |-> RMax(P.F, RMul(P.R, Grid(P)[j]))]

\* theta(mu, X, dt, i) = (1 + mu) * X * exp(mu * i * dt)
Theta(P, i) ==
    RMul(RMul(RAdd(One, P.mu), P.X), Exp(RMul(RMul(P.mu, R(i)), DT(P))))

\* pow(sigma, 2) * pow(j, 2 * beta) * pow(dS, 2 * (beta - 1))
Vol(P, j) ==
    RMul(RMul(Pow(P.sigma, R(2)), Pow(R(j), RMul(R(2), P.beta))),
         Pow(DS(P), RMul(R(2), RSub(P.beta, One))))

\* (kappa / (4 * dS)) * (theta(mu, X, dt, i) - j * dS)
Drift(P, i, j) ==
    RMul(RDiv(P.kappa, RMul(R(4), DS(P))), RSub(Theta(P, i), RMul(R(j), DS(P))))

Quarter == <<1, 4>>

\* the base system of time layer i, assembled from v_old
Assemble(P, i, v_old) ==
    LET dt   == DT(P)
        dS   == DS(P)
        jm   == P.j_max
        invt == RDiv(One, dt)
        r2   == RDiv(P.r, R(2))
        kth  == RDiv(RMul(P.kappa, Theta(P, i)), dS)
        aRow(j) == RAdd(RMul(RNeg(Quarter), Vol(P, j)), Drift(P, i, j))
        bRow(j) == RAdd(RAdd(invt, RMul(Half, Vol(P, j))), r2)
        cRow(j) == RSub(RMul(RNeg(Quarter), Vol(P, j)), Drift(P, i, j))
        dRow(j) ==
            RAdd(RAdd(RAdd(
                RMul(RSub(RMul(Quarter, Vol(P, j)), Drift(P, i, j)), v_old[j - 1]),
                RMul(RSub(RSub(invt, RMul(Half, Vol(P, j))), r2), v_old[j])),
                RMul(RAdd(RMul(Quarter, Vol(P, j)), Drift(P, i, j)), v_old[j + 1])),
                RMul(P.C, Exp(RMul(RMul(RNeg(P.alpha), R(i)), dt))))
    IN  [a |-> [j \in 0..jm |->
                  IF j = 0 \/ j = jm THEN Zero ELSE aRow(j)],
         b |-> [j \in 0..jm |->
                  IF j = jm THEN One
                  ELSE IF j = 0 THEN RSub(RSub(RNeg(invt), kth), r2)
                  ELSE bRow(j)],
         c |-> [j \in 0..jm |->
                  IF j = jm THEN Zero
                  ELSE IF j = 0 THEN kth
                  ELSE cRow(j)],
         d |-> [j \in 0..jm |->
                  IF j = jm THEN RMul(P.R, Grid(P)[jm])
                  ELSE IF j = 0
                       THEN RSub(RMul(RAdd(RNeg(invt), r2), v_old[0]),
                                 RMul(P.C, Exp(RMul(R(-i), dt))))
                  ELSE dRow(j)]]

\* a test that also penalises a row whose candidate sits on the obstacle
ViolatesOrTouches(P, v, j) == RLe(v[j], RMul(P.R, Grid(P)[j]))

\* if (v_new[j] < R * S[j]): does the pass penalise row j
Violates(P, v, j) == RLt(v[j], RMul(P.R, Grid(P)[j]))

\* the rows the penalty loop visits: for (int j{ 1 }; j < j_max; j++)
PenaltyRows(P) == 1..(P.j_max - 1)

\* a penalty that is added to the diagonal only
PenaliseDiagonalOnly(P, base, v) ==
    [a |-> base.a,
     b |-> [j \in 0..P.j_max |->
              IF j \in 1..(P.j_max - 1) /\ RLt(v[j], RMul(P.R, Grid(P)[j]))
              THEN RAdd(base.b[j], P.rho) ELSE base.b[j]],
     c |-> base.c,
     d |-> base.d]

\* a_hat, b_hat, c_hat, d_hat: the copy of the base system with the penalty
\* applied where the candidate v violates the obstacle
Penalise(P, base, v) ==
    [a |-> base.a,
     b |-> [j \in 0..P.j_max |->
              IF j \in PenaltyRows(P) /\ Violates(P, v, j)
              THEN RAdd(base.b[j], P.rho) ELSE base.b[j]],
     c |-> base.c,
     d |-> [j \in 0..P.j_max |->
              IF j \in PenaltyRows(P) /\ Violates(P, v, j)
              THEN RAdd(base.d[j], RMul(P.rho, RMul(P.R, Grid(P)[j])))
              ELSE base.d[j]]]

\* error: the sum over j < j_max of pow(v_new[j] - y[j], 2)
SquaredError(P, v, y) ==
    LET e[k \in 0..P.j_max] ==
            IF k = 0 THEN Zero
            ELSE RAdd(e[k - 1], RSq(RSub(v[k - 1], y[k - 1])))
    IN  e[P.j_max]

\* if (error < pow(tol, 2))
Converges(P, error) == RLt(error, RSq(P.tol))

\* a loop condition that admits one pass more than the cap
LoopGuardInclusive(P, itr) == itr <= P.iter_max

\* the penalty loop's condition: penalty_itr < iter_max
LoopGuard(P, itr) == itr < P.iter_max

\* a check that is off by one
NoConvergenceOffByOne(P, itr) == itr >= P.iter_max - 1

\* if (penalty_itr >= iter_max): no solution found
NoConvergence(P, itr) == itr >= P.iter_max

\* the order crank_nicolson asks lagrange_interpolation for
InterpolationOrder == 8

(***************************************************************************)
(* State                                                                   *)
(***************************************************************************)
\* a call of thomas_solve: the caller's four sequences, their contents
\* before the call, the returned vector
VARIABLES ta, tb, tc, td, ta0, tb0, tc0, td0, tx, tpc

tvars == <<ta, tb, tc, td, ta0, tb0, tc0, td0, tx, tpc>>

\* a call of lagrange_interpolation: the arguments, the order of the current
\* invocation, the number of invocations, the indices of x and y read, the
\* window start, the outcome
VARIABLES ly, lx, lx0, lnReq, ln, lcalls, lxReads, lyReads, lsumReads, ljStar,
          lout, lpc

lvars == <<ly, lx, lx0, lnReq, ln, lcalls, lxReads, lyReads, lsumReads, ljStar,
           lout, lpc>>

\* a run of crank_nicolson: the parameters, the locals of the function, and
\* the record of what the run has done
VARIABLES par, S, v_old, v_new, i, base, hat, d_hat, v_prev, error,
          penalty_itr, option_value, pc,
          order, vOldAt, baseAt, errsAt, endAt, convAt, solves, lagr

cvars == <<par, S, v_old, v_new, i, base, hat, d_hat, v_prev, error,
           penalty_itr, option_value, pc,
           order, vOldAt, baseAt, errsAt, endAt, convAt, solves, lagr>>

vars == <<tvars, lvars, cvars>>

NoValue == <<"none">>

Empty == <<>>

ThomasIdle ==
    /\ ta = Empty /\ tb = Empty /\ tc = Empty /\ td = Empty
    /\ ta0 = Empty /\ tb0 = Empty /\ tc0 = Empty /\ td0 = Empty
    /\ tx = Empty
    /\ tpc = "idle"

LagrangeIdle ==
    /\ ly = Empty /\ lx = Empty /\ lx0 = Zero /\ lnReq = 0 /\ ln = 0
    /\ lcalls = 0
    /\ lxReads = {} /\ lyReads = {} /\ lsumReads = {}
    /\ ljStar = 0
    /\ lout = NoValue
    /\ lpc = "idle"

CNIdle ==
    /\ par = Empty /\ S = Empty /\ v_old = Empty /\ v_new = Empty
    /\ i = 0 /\ base = Empty /\ hat = Empty /\ d_hat = Empty /\ v_prev = Empty
    /\ error = Zero /\ penalty_itr = 0 /\ option_value = NoValue
    /\ pc = "idle"
    /\ order = Empty /\ vOldAt = Empty /\ baseAt = Empty /\ errsAt = Empty
    /\ endAt = Empty /\ convAt = Empty /\ solves = 0 /\ lagr = Empty

(***************************************************************************)
(* Calls of thomas_solve on bounded systems                                *)
(***************************************************************************)
MaxN == 3

OffDiag == {R(-1), R(2)}

Diag == {R(-5), <<9, 2>>}

Rhs == {R(-2), R(1)}

\* |b[j]| > |a[j]| + |c[j]| in every row
DiagonallyDominant(a, b, c) ==
    \A j \in DOMAIN a : RLt(RAdd(RAbs(a[j]), RAbs(c[j])), RAbs(b[j]))

ThomasInit ==
    /\ \E n \in 1..MaxN :
         /\ ta \in [0..(n - 1) -> OffDiag]
         /\ tb \in [0..(n - 1) -> Diag]
         /\ tc \in [0..(n - 1) -> OffDiag]
         /\ td \in [0..(n - 1) -> Rhs]
    /\ DiagonallyDominant(ta, tb, tc)
    /\ ta0 = ta /\ tb0 = tb /\ tc0 = tc /\ td0 = td
    /\ tx = Empty
    /\ tpc = "call"
    /\ LagrangeIdle
    /\ CNIdle

ThomasCall ==
    /\ tpc = "call"
    /\ LET r == ThomasSolve(ta, tb, tc, td)
       IN  /\ tx' = r.temp
           /\ td' = r.d
    /\ tpc' = "returned"
    /\ UNCHANGED <<ta, tb, tc, ta0, tb0, tc0, td0, lvars, cvars>>

ThomasNext == ThomasCall

SpecThomas == ThomasInit /\ [][ThomasNext]_vars

(***************************************************************************)
(* Calls of lagrange_interpolation on bounded uniform grids                *)
(***************************************************************************)
MaxLen == 4

MaxOrder == 6

QuerySpan == 10

GridStart == {R(0), R(-1)}

GridStep == {R(1), Half}

YVals == {R(1), R(3)}

\* what an out-of-range read of x[1] may yield
GarbageDouble == {R(0), R(7), NaN}

\* what the conversion of a non-finite double to int may yield
GarbageInt == {-5, 0, 9}

LagrangeInit ==
    /\ \E len \in 0..MaxLen, s \in GridStart, h \in GridStep :
         /\ lx = [k \in 0..(len - 1) |-> RAdd(s, RMul(R(k), h))]
         /\ ly \in [0..(len - 1) -> YVals]
    /\ lx0 \in {Norm(k, 4) : k \in (-QuerySpan)..(2 * QuerySpan)}
    /\ lnReq \in 0..MaxOrder
    /\ ln = lnReq
    /\ lcalls = 0
    /\ lxReads = {} /\ lyReads = {} /\ lsumReads = {}
    /\ ljStar = 0
    /\ lout = NoValue
    /\ lpc = "entry"
    /\ ThomasIdle
    /\ CNIdle

\* entry of one invocation:
\* if (x.size() < n) return lagrange_interpolation(y, x, x0, x.size())
LagrangeEnter ==
    /\ lpc = "entry"
    /\ lcalls' = lcalls + 1
    /\ IF Size(lx) < ln
       THEN /\ ln' = ReinvokeOrder(lx, ln)
            /\ lpc' = "entry"
       ELSE /\ ln' = ln
            /\ lpc' = "body"
    /\ UNCHANGED <<ly, lx, lx0, lnReq, lxReads, lyReads, lsumReads, ljStar, lout,
                   tvars, cvars>>

\* if (n == 0) throw;   no exception is being handled: std::terminate
LagrangeThrow ==
    /\ lpc = "body"
    /\ ln = 0
    /\ lpc' = "terminated"
    /\ UNCHANGED <<ly, lx, lx0, lnReq, ln, lcalls, lxReads, lyReads, lsumReads,
                   ljStar, lout, tvars, cvars>>

\* the rest of the body, from dx = x[1] - x[0] to the return
LagrangeBody ==
    /\ lpc = "body"
    /\ ln # 0
    /\ \E x1 \in (IF 1 \in DOMAIN lx THEN {lx[1]} ELSE GarbageDouble) :
       LET dx  == RSub(x1, lx[0])
           q   == RDiv(RSub(lx0, lx[0]), dx)
       IN  \E raw \in (IF IsNaN(q) THEN GarbageInt ELSE {JStarRaw(q, ln)}) :
           LET jStar == ClampJStar(raw, Size(lx), ln)
           IN  /\ ljStar' = jStar
               /\ IF ln = 1
                  THEN /\ lout' = <<"value", ly[jStar]>>
                       /\ lxReads' = {0, 1}
                       /\ lyReads' = {jStar}
                       /\ lsumReads' = {}
                  ELSE /\ lout' = <<"value", LagrangeSum(ly, lx, lx0, jStar, ln)>>
                       /\ lxReads' = {0, 1} \cup SumIndices(jStar, ln)
                       /\ lyReads' = SumIndices(jStar, ln)
                       /\ lsumReads' = SumIndices(jStar, ln)
    /\ lpc' = "returned"
    /\ UNCHANGED <<ly, lx, lx0, lnReq, ln, lcalls, tvars, cvars>>

LagrangeNext == LagrangeEnter \/ LagrangeThrow \/ LagrangeBody

SpecLagrange == LagrangeInit /\ [][LagrangeNext]_vars

(***************************************************************************)
(* Runs of crank_nicolson on bounded grids                                 *)
(***************************************************************************)
MaxIMax == 2

MaxIterMax == 3

\* the parameter sets the runs are drawn from: dS = 1 and dt = 1, and the
\* coefficients such that every double of a run is a rational whose
\* numerator and denominator stay within 32 bits.  kappa = 16 with X = 3/8
\* is the family whose forward sweep meets a pivot that is exactly zero at
\* row 1: b[1] - c[0] * a[1] / b[0] = 3 - 6 * (-7/2) / (-7)
Params ==
    [T : {R(k) : k \in 1..MaxIMax}, F : {R(1), R(2)}, R : {R(1)},
     r : {R(0), R(2)}, kappa : {R(0), R(4), R(16)}, mu : {R(0)},
     S0 : {<<3, 2>>}, X : {R(1), <<3, 8>>}, C : {R(0), R(1)},
     alpha : {R(0)}, beta : {Half}, sigma : {R(2)}, i_max : 1..MaxIMax, j_max : {2, 3}, S_max : {R(2), R(3)},
     rho : {R(0), R(1), R(4)}, tol : {<<1, 10>>, R(3)},
     iter_max : 0..MaxIterMax]

CNInit ==
    /\ par \in Params
    /\ par.S_max = R(par.j_max)
    /\ par.T = R(par.i_max)
    /\ par.kappa = Zero \/ par.r = Zero
    /\ par.kappa = R(16) <=> par.X = <<3, 8>>
    /\ S = Grid(par)
    /\ v_old = Payoff(par)
    /\ v_new = Payoff(par)
    /\ i = par.i_max - 1
    /\ base = Empty /\ hat = Empty /\ d_hat = Empty /\ v_prev = Empty
    /\ error = Zero
    /\ penalty_itr = 0
    /\ option_value = NoValue
    /\ pc = "layer"
    /\ order = Empty /\ vOldAt = Empty /\ baseAt = Empty /\ errsAt = Empty
    /\ endAt = Empty /\ convAt = Empty
    /\ solves = 0
    /\ lagr = Empty
    /\ ThomasIdle
    /\ LagrangeIdle

\* one turn of the loop over the time levels, up to the penalty loop: the
\* base system a, b, c, d of layer i is assembled from v_old
BuildLayer ==
    /\ pc = "layer"
    /\ i >= 0
    /\ base' = Assemble(par, i, v_old)
    /\ penalty_itr' = 0
    /\ pc' = "penalty"
    /\ order' = Append(order, i)
    /\ vOldAt' = (i :> v_old) @@ vOldAt
    /\ baseAt' = (i :> base') @@ baseAt
    /\ errsAt' = (i :> <<>>) @@ errsAt
    /\ UNCHANGED <<par, S, v_old, v_new, i, hat, d_hat, v_prev, error,
                   option_value, endAt, convAt, solves, lagr, tvars, lvars>>

\* one pass of the penalty loop: copy, penalise, solve, measure, replace the
\* candidate, and leave the loop if the pass converged
PenaltyPass ==
    /\ pc = "penalty"
    /\ LoopGuard(par, penalty_itr)
    /\ \E h \in {Penalise(par, base, v_new)} :
       \E sol \in {ThomasSolve(h.a, h.b, h.c, h.d)} :
       \E err \in {SquaredError(par, v_new, sol.temp)} :
           /\ hat' = h
           /\ d_hat' = sol.d
           /\ v_prev' = v_new
           /\ v_new' = sol.temp
           /\ error' = err
           /\ errsAt' = [errsAt EXCEPT ![i] = Append(@, err)]
           /\ IF Converges(par, err)
              THEN /\ pc' = "check"
                   /\ penalty_itr' = penalty_itr
              ELSE /\ pc' = "penalty"
                   /\ penalty_itr' = penalty_itr + 1
    /\ solves' = solves + 1
    /\ UNCHANGED <<par, S, v_old, i, base, option_value, order, vOldAt, baseAt,
                   endAt, convAt, lagr, tvars, lvars>>

\* the penalty loop ends because its condition fails
PenaltyExhausted ==
    /\ pc = "penalty"
    /\ ~LoopGuard(par, penalty_itr)
    /\ pc' = "check"
    /\ UNCHANGED <<par, S, v_old, v_new, i, base, hat, d_hat, v_prev, error,
                   penalty_itr, option_value, order, vOldAt, baseAt, errsAt,
                   endAt, convAt, solves, lagr, tvars, lvars>>

\* a failure that is reported and not thrown: the run goes on
LayerFailedNoThrow ==
    /\ pc = "check"
    /\ penalty_itr >= par.iter_max
    /\ v_old' = v_new
    /\ i' = i - 1
    /\ pc' = "layer"
    /\ endAt' = (i :> "Failed") @@ endAt
    /\ UNCHANGED <<par, S, v_new, base, hat, d_hat, v_prev, error, penalty_itr,
                   option_value, order, vOldAt, baseAt, errsAt, convAt, solves,
                   lagr, tvars, lvars>>

\* if (penalty_itr >= iter_max) { ...; throw; }   no exception is being
\* handled: std::terminate ends the program
LayerFailed ==
    /\ pc = "check"
    /\ NoConvergence(par, penalty_itr)
    /\ pc' = "terminated"
    /\ endAt' = (i :> "Failed") @@ endAt
    /\ UNCHANGED <<par, S, v_old, v_new, i, base, hat, d_hat, v_prev, error,
                   penalty_itr, option_value, order, vOldAt, baseAt, errsAt,
                   convAt, solves, lagr, tvars, lvars>>

\* a layer end that steps to the next layer without v_old = v_new
LayerConvergedKeepOld ==
    /\ pc = "check"
    /\ ~(penalty_itr >= par.iter_max)
    /\ i' = i - 1
    /\ pc' = "layer"
    /\ endAt' = (i :> "Converged") @@ endAt
    /\ convAt' = (i :> v_new) @@ convAt
    /\ UNCHANGED <<par, S, v_old, v_new, base, hat, d_hat, v_prev, error,
                   penalty_itr, option_value, order, vOldAt, baseAt, errsAt,
                   solves, lagr, tvars, lvars>>

\* v_old = v_new; and the loop over the time levels steps to i - 1
LayerConverged ==
    /\ pc = "check"
    /\ ~NoConvergence(par, penalty_itr)
    /\ v_old' = v_new
    /\ i' = i - 1
    /\ pc' = "layer"
    /\ endAt' = (i :> "Converged") @@ endAt
    /\ convAt' = (i :> v_new) @@ convAt
    /\ UNCHANGED <<par, S, v_new, base, hat, d_hat, v_prev, error, penalty_itr,
                   option_value, order, vOldAt, baseAt, errsAt, solves, lagr,
                   tvars, lvars>>

\* after the loop: option_value = lagrange_interpolation(v_new, S, S0, 8)
Interpolate ==
    /\ pc = "layer"
    /\ ~(i >= 0)
    /\ lagr' = Append(lagr, [y |-> v_new, x |-> S, x0 |-> par.S0,
                             n |-> InterpolationOrder])
    /\ option_value' =
           <<"value", LagrangeInterpolation(v_new, S, par.S0, InterpolationOrder)>>
    /\ pc' = "returned"
    /\ UNCHANGED <<par, S, v_old, v_new, i, base, hat, d_hat, v_prev, error,
                   penalty_itr, order, vOldAt, baseAt, errsAt, endAt, convAt,
                   solves, tvars, lvars>>

Next ==
    \/ BuildLayer
    \/ PenaltyPass
    \/ PenaltyExhausted
    \/ LayerFailed
    \/ LayerConverged
    \/ Interpolate

Init == CNInit

Spec == Init /\ [][Next]_vars

\* the program is sequential and runs on: a step that can be taken is taken
SpecLive == Spec /\ WF_vars(Next)

\* every value of the state is finite: true of every run but those of the
\* family kappa = 16, X = 3/8, whose sweep divides by a zero pivot
Finite ==
    /\ \A j \in DOMAIN v_new : ~IsNaN(v_new[j])
    /\ ~IsNaN(error)
    /\ option_value # NoValue => ~IsNaN(option_value[2])

(***************************************************************************)
(* Properties of the penalty loop and the time march (Spec)                *)
(***************************************************************************)
\* pass k of a layer with squared errors e converged: e[k] < tol^2
PassConverged(e, k) == RLt(e[k], RSq(par.tol))

\* the obstacle R * S[j]
Obstacle(j) == RMul(par.R, S[j])

\* the last pass run in the current layer converged
JustConverged ==
    /\ pc = "check"
    /\ errsAt[i] # <<>>
    /\ PassConverged(errsAt[i], Len(errsAt[i]))

\* C1: a time layer ends Converged exactly when some pass k < iter_max has a
\* squared error below tol^2, and the loop stops at the first such pass (a
\* pass converging as the last permitted one is Converged); it ends Failed
\* exactly when iter_max passes ran and none converged; with iter_max = 0
\* the first layer ends Failed without a solve
C1_PenaltyLoopOutcome ==
    /\ \A l \in DOMAIN endAt :
         LET e == errsAt[l]
         IN  /\ Len(e) <= par.iter_max
             /\ (endAt[l] = "Converged") <=> (\E k \in 1..Len(e) : PassConverged(e, k))
             /\ endAt[l] = "Converged" =>
                  /\ PassConverged(e, Len(e))
                  /\ \A k \in 1..(Len(e) - 1) : ~PassConverged(e, k)
             /\ (endAt[l] = "Failed") <=>
                  /\ Len(e) = par.iter_max
                  /\ \A k \in 1..Len(e) : ~PassConverged(e, k)
    /\ pc = "penalty" =>
         /\ Len(errsAt[i]) = penalty_itr
         /\ \A k \in 1..Len(errsAt[i]) : ~PassConverged(errsAt[i], k)
    /\ par.iter_max = 0 =>
         /\ solves = 0
         /\ convAt = Empty
         /\ pc \in {"layer", "penalty", "check", "terminated"}
         /\ pc = "terminated" => endAt = ((par.i_max - 1) :> "Failed")

\* a layer converged in its last permitted pass, after a pass that did not
C1_Witness ==
    \E l \in DOMAIN endAt :
        /\ endAt[l] = "Converged"
        /\ Len(errsAt[l]) = par.iter_max
        /\ par.iter_max >= 2

\* C2: once a layer has ended Failed the run has aborted at that layer: no
\* earlier layer is assembled, v_old is still the vector the failed layer was
\* assembled from, lagrange_interpolation is not invoked, no value is returned
C2_FailedAborts ==
    \A l \in DOMAIN endAt :
        endAt[l] = "Failed" =>
            /\ pc = "terminated"
            /\ i = l
            /\ \A k \in 1..Len(order) : order[k] >= l
            /\ v_old = vOldAt[l]
            /\ lagr = Empty
            /\ option_value = NoValue

\* a layer other than the first one failed, its candidate differing from v_old
C2_Witness ==
    \E l \in DOMAIN endAt :
        /\ endAt[l] = "Failed"
        /\ l < par.i_max - 1
        /\ v_new # v_old

\* C3: the layers are assembled in the order i_max-1, ..., 0, each once; the
\* v_old a layer is assembled from is the terminal payoff for i_max-1 and
\* the converged candidate of layer i+1 otherwise; lagrange_interpolation is
\* invoked once, after layer 0 converged, on its vector with order 8
C3_LayerOrder ==
    /\ \A k \in 1..Len(order) : order[k] = par.i_max - k
    /\ \A l \in DOMAIN vOldAt :
         IF l = par.i_max - 1
         THEN vOldAt[l] = [j \in 0..par.j_max |-> RMax(par.F, Obstacle(j))]
         ELSE /\ (l + 1) \in DOMAIN convAt
              /\ vOldAt[l] = convAt[l + 1]
    /\ \A l \in DOMAIN convAt : endAt[l] = "Converged"
    /\ Len(lagr) <= 1
    /\ Len(lagr) = 1 =>
         /\ 0 \in DOMAIN convAt
         /\ lagr[1] = [y |-> convAt[0], x |-> S, x0 |-> par.S0, n |-> 8]
    /\ pc = "returned" =>
         /\ Len(lagr) = 1
         /\ Len(order) = par.i_max

\* a run of at least two layers returned, its layers' vectors differing
C3_Witness ==
    /\ pc = "returned"
    /\ par.i_max >= 2
    /\ convAt[0] # convAt[1]
    /\ convAt[1] # vOldAt[par.i_max - 1]

\* C9 as stated, the slack being the tolerance: every converged candidate has
\*   value[j] >= R * S[j] - tol   at every j in 0..j_max
C9_ObstacleWithinTol ==
    \A l \in DOMAIN convAt :
        \A j \in 0..par.j_max :
            RLe(RSub(Obstacle(j), RAbs(par.tol)), convAt[l][j])

\* the residual of the base row j at the vector v
BaseResidual(v, j) ==
    RSub(RAdd(RAdd(RMul(base.a[j], v[j - 1]), RMul(base.b[j], v[j])),
              RMul(base.c[j], v[j + 1])),
         base.d[j])

\* C9, amended: when a layer converges, value[j] > R * S[j] - |tol| at every
\* j < j_max whose candidate entering the converging pass was not below
\* R * S[j], and value[j_max] = R * S[j_max]; at a row penalised in that
\* pass the shortfall R * S[j] - value[j] is the base row's residual over rho
C9_ObstacleWhereNotPenalised ==
    JustConverged =>
        /\ \A j \in 0..(par.j_max - 1) :
             ~RLt(v_prev[j], Obstacle(j)) =>
                 RLt(RSub(Obstacle(j), RAbs(par.tol)), v_new[j])
        /\ v_new[par.j_max] = Obstacle(par.j_max)
        /\ \A j \in 1..(par.j_max - 1) :
             RLt(v_prev[j], Obstacle(j)) =>
                 RMul(par.rho, RSub(Obstacle(j), v_new[j])) = BaseResidual(v_new, j)

\* a layer converged with a penalised row that stays below the obstacle,
\* next to a row that was not penalised
C9_Witness ==
    /\ JustConverged
    /\ par.rho # Zero
    /\ \E j \in 1..(par.j_max - 1) :
         /\ RLt(v_prev[j], Obstacle(j))
         /\ RLt(v_new[j], Obstacle(j))
    /\ \E j \in 1..(par.j_max - 1) : ~RLt(v_prev[j], Obstacle(j))

\* C10: the system handed to thomas_solve in a pass is the base system with
\* rho added to the diagonal and rho * R * S[j] to the right-hand side at
\* the interior rows whose candidate entering the pass is below R * S[j],
\* and equal to the base everywhere else; the base does not change in a layer
C10_PenaltyFrame ==
    (pc \in {"penalty", "check"}) =>
        /\ base = baseAt[i]
        /\ errsAt[i] # <<>> =>
             \A j \in 0..par.j_max :
                 /\ hat.a[j] = base.a[j]
                 /\ hat.c[j] = base.c[j]
                 /\ IF j >= 1 /\ j <= par.j_max - 1 /\ RLt(v_prev[j], Obstacle(j))
                    THEN /\ hat.b[j] = RAdd(base.b[j], par.rho)
                         /\ hat.d[j] = RAdd(base.d[j], RMul(par.rho, Obstacle(j)))
                    ELSE /\ hat.b[j] = base.b[j]
                         /\ hat.d[j] = base.d[j]

\* a second or later pass penalised one interior row and not another, and
\* the solver swept the handed right-hand side
C10_Witness ==
    /\ pc \in {"penalty", "check"}
    /\ Len(errsAt[i]) >= 2
    /\ par.rho # Zero
    /\ \E j \in 1..(par.j_max - 1) : hat.b[j] # base.b[j]
    /\ \E j \in 1..(par.j_max - 1) : hat.b[j] = base.b[j]
    /\ d_hat # hat.d

\* the top row of a system: sub-diagonal 0, diagonal 1, right-hand side
\* R * S[j_max]
TopRowPinned(sys) ==
    /\ sys.a[par.j_max] = Zero
    /\ sys.b[par.j_max] = One
    /\ sys.d[par.j_max] = Obstacle(par.j_max)

\* the top row of every assembled system and of every system handed to the
\* solver is the pinned row: it is never penalised
TopRowShape ==
    /\ base # Empty => TopRowPinned(base)
    /\ hat # Empty => TopRowPinned(hat)

\* C11: in every layer and every pass the top row has sub-diagonal 0,
\* diagonal 1 and right-hand side R * S[j_max] and is not penalised, the value
\* solved at j_max is R * S_max after every pass, and after every converged
\* layer v_new[j_max] = v_old[j_max] = R * S_max
C11_TopPinned ==
    /\ TopRowShape
    /\ solves > 0 => v_new[par.j_max] = RMul(par.R, par.S_max)
    /\ \A l \in DOMAIN convAt : convAt[l][par.j_max] = RMul(par.R, par.S_max)
    /\ DOMAIN convAt # {} => v_old[par.j_max] = RMul(par.R, par.S_max)

\* the value solved at j_max is R * S_max after every pass whose forward
\* sweep met no zero pivot
TopPinnedUnlessZeroPivot ==
    (solves > 0 /\ \A j \in 0..par.j_max : ~IsNaN(v_new[j])) =>
        v_new[par.j_max] = RMul(par.R, par.S_max)

\* the run is over: a value was returned, or the bare throw ended it
Done == pc \in {"returned", "terminated"}

\* the solves of every layer and of the run stay within the cap; a layer that
\* ends Failed has used the whole cap; a run that is over has returned a value
\* or has a Failed layer
SolveBound ==
    /\ \A l \in DOMAIN errsAt : Len(errsAt[l]) <= par.iter_max
    /\ \A l \in DOMAIN endAt :
           endAt[l] = "Failed" => Len(errsAt[l]) = par.iter_max
    /\ solves <= par.i_max * par.iter_max
    /\ pc = "returned" => option_value # NoValue
    /\ pc = "terminated" => \E l \in DOMAIN endAt : endAt[l] = "Failed"

\* C12: every run of crank_nicolson ends, returning a value or aborting on a
\* layer without convergence; each layer performs at most iter_max solves and
\* the run at most i_max * iter_max, and a layer is given up only when the
\* cap of iter_max passes is used up
C12_Terminates == [] SolveBound /\ <> Done

\* a run of two layers returned a value after three or more solves
C12_Witness ==
    /\ pc = "returned"
    /\ par.i_max = 2
    /\ solves >= 3

(***************************************************************************)
(* Properties of thomas_solve (SpecThomas)                                 *)
(***************************************************************************)
\* C4: after a call each of the four sequences the caller supplied has the
\* contents it had before the call
C4_NoSideEffects ==
    tpc = "returned" => /\ ta = ta0
                        /\ tb = tb0
                        /\ tc = tc0
                        /\ td = td0

\* the left-hand side of row j of the system a, b, c at x
RowValue(a, b, c, x, j) ==
    LET n == Size(x)
    IN  RAdd(RAdd(IF j > 0 THEN RMul(a[j], x[j - 1]) ELSE Zero,
                  RMul(b[j], x[j])),
             IF j < n - 1 THEN RMul(c[j], x[j + 1]) ELSE Zero)

\* C5: for a diagonally dominant system the returned vector satisfies every
\* row equation of the system as it was before the call
C5_SolvesSystem ==
    tpc = "returned" =>
        /\ DOMAIN tx = DOMAIN td0
        /\ \A j \in DOMAIN tx : RowValue(ta0, tb0, tc0, tx, j) = td0[j]

\* a system of the largest size was solved, the sweep having changed d
C5_Witness ==
    /\ tpc = "returned"
    /\ Size(tx) = MaxN
    /\ td # td0
    /\ \A j \in DOMAIN tx : tx[j] # Zero

(***************************************************************************)
(* Properties of lagrange_interpolation (SpecLagrange)                     *)
(***************************************************************************)
\* (x0 - x[0]) / dx for the call's grid
Quotient == RDiv(RSub(lx0, lx[0]), RSub(lx[1], lx[0]))

\* the window start of the specification: floor(q) - (n/2 - 1) for even n,
\* round(q) - n/2 for odd n, clamped into [0, len(x) - n]
SpecStart(q, n, len) ==
    LET raw == IF n % 2 = 0 THEN Floor(q) - ((n \div 2) - 1)
               ELSE Round(q) - (n \div 2)
    IN  IF raw < 0 THEN 0 ELSE IF raw > len - n THEN len - n ELSE raw

\* C6: with 2 <= n <= len(x) the window start is the specification's formula
\* clamped into [0, len(x) - n], and the Lagrange sum reads x and y only at
\* start .. start + n - 1, inside 0 .. len(x) - 1
C6_WindowStart ==
    (lpc = "returned" /\ lnReq >= 2 /\ lnReq <= Size(lx)) =>
        /\ ljStar = SpecStart(Quotient, lnReq, Size(lx))
        /\ lsumReads = ljStar..(ljStar + lnReq - 1)
        /\ lsumReads \subseteq 0..(Size(lx) - 1)

\* a query below the grid where truncation and floor differ, in a window
\* smaller than the grid
C6_Witness ==
    /\ lpc = "returned"
    /\ lnReq >= 2
    /\ lnReq < Size(lx)
    /\ RLt(lx0, lx[0])
    /\ Trunc(Quotient) # Floor(Quotient)

\* C7: a call with n > len(x) behaves as the call with n = len(x), through
\* exactly one re-invocation; an order that is zero after clamping ends in
\* the fatal error, with no value and no element of x or y read
C7_ClampOnce ==
    /\ lcalls <= 2
    /\ (lpc \in {"returned", "terminated"} /\ lnReq > Size(lx)) =>
         /\ lcalls = 2
         /\ ln = Size(lx)
         /\ Size(lx) = 0 => lpc = "terminated"
         /\ Size(lx) >= 2 =>
              /\ lpc = "returned"
              /\ lout = <<"value", LagrangeInterpolation(ly, lx, lx0, Size(lx))>>
    /\ (lpc \in {"returned", "terminated"} /\ lnReq <= Size(lx)) => lcalls = 1
    /\ (lpc \in {"returned", "terminated"} /\ (lnReq = 0 \/ Size(lx) = 0)) =>
         lpc = "terminated"
    /\ lpc = "terminated" =>
         /\ ln = 0
         /\ lout = NoValue
         /\ lxReads = {} /\ lyReads = {}

\* an order two above the sample count was clamped and the call returned
C7_Witness ==
    /\ lpc = "returned"
    /\ lnReq = Size(lx) + 2
    /\ Size(lx) >= 2

\* C8: a call of effective order 1 returns one of the input y-values, y[k]
\* with k in 0 .. len(x) - 1, and reads x and y only inside their range
C8_OrderOne ==
    (lpc = "returned" /\ ln = 1) =>
        /\ \E k \in DOMAIN ly : lout = <<"value", ly[k]>>
        /\ lxReads \subseteq DOMAIN lx
        /\ lyReads \subseteq DOMAIN ly

=============================================================================
